---- MODULE Spec2Model ----
(***************************************************************************)
(* State-machine model of the stock ingestion scripts.                     *)
(*                                                                         *)
(*  - merge_stocks_data.py : process_stocks = fetch_existing_stocks, then  *)
(*    _process_stock_data (classification of the file's records into       *)
(*    new_stocks / to_be_updated), then _insert_stocks_in_batches for each *)
(*    list (specification Spec).                                           *)
(*  - fill-fundamentals.py : the retry loops of fetch_yahoo_data,          *)
(*    fetch_detailed_yahoo_data and fetch_alpha_vantage_data               *)
(*    (specification FetchSpec), and their callers fetch_stock_data,       *)
(*    process_stock and main with _process_single_stock (specification     *)
(*    RunSpec); FetchFairSpec is FetchSpec with every started fetch run    *)
(*    to its end.                                                          *)
(*  - fill-fundamentals.py : _upsert_fundamentals_record over the          *)
(*    stock_fundamentals table (specification UpsertSpec).                 *)
(*  - merge_stocks_data.py run again on the same file, the store holding   *)
(*    what the earlier run wrote (specification RerunSpec).                *)
(*                                                                         *)
(* Python values: None is the string "None", the 'N/A' marker is the       *)
(* string "N/A", numbers are written as digit strings, so that the values  *)
(* of one field are comparable.  A dict is a TLA+ record or function.      *)
(***************************************************************************)
EXTENDS Integers, Sequences, FiniteSets, TLC

VARIABLES
    pc,                         \* position inside process_stocks
    rows,                       \* response.data of the stocks_search select
    file,                       \* what open(path) / json.load(file) give
    exchange,                   \* the exchange argument of process_stocks
    existing_symbol_to_id_map,  \* result of fetch_existing_stocks
    stocks_data,                \* json.load(file)
    idx,                        \* number of records of stocks_data consumed
    new_stocks,                 \* insert list
    to_be_updated,              \* update list
    i,                          \* loop variable of _insert_stocks_in_batches
    calls,                      \* upsert calls issued to the store, in order
    log,                        \* lines printed
    fpc,                        \* position inside the running fetch
    fn,                         \* which fetch function runs
    max_retries,                \* its max_retries argument
    api_key,                    \* whether ALPHA_VANTAGE_API_KEY is set
    endpoint,                   \* index of the Alpha Vantage endpoint
    attempt,                    \* loop variable of the retry loop
    result,                     \* endpoint_name -> data collected so far
    requests,                   \* answers to the requests of the running
                                \* retry loop (one loop per endpoint)
    issued,                     \* number of requests issued by the call
    sleeps,                     \* time.sleep calls of the latest iteration
    ret,                        \* value returned by the fetch
    caller,                     \* function that calls the fetch functions
    cpc,                        \* position inside the caller
    trail,                      \* fetches the caller has made for the
                                \* stock at hand, with what they returned
    cret,                       \* value returned by the caller
    n_stocks,                   \* number of stocks main iterates over
    sidx,                       \* index of the stock at hand
    needs,                      \* result of _check_update_needs
    processed,                  \* outcome of every stock main is done with
    ages,                       \* what the store holds on the stock at hand:
                                \* age of its stock_metrics row and of its
                                \* latest stock_fundamentals row (minutes)
    run,                        \* which run of process_stocks this is
    stock_fundamentals,         \* rows of the stock_fundamentals table
    upserted                    \* the _upsert_fundamentals_record calls made

mergeVars == <<pc, rows, file, exchange, existing_symbol_to_id_map,
               stocks_data, idx, new_stocks, to_be_updated, i, calls, log,
               run>>
fetchVars == <<fpc, fn, max_retries, api_key, endpoint, attempt, result,
               requests, issued, sleeps, ret>>
callerVars == <<caller, cpc, trail, cret, n_stocks, sidx, needs, processed,
                ages>>
tableVars == <<stock_fundamentals, upserted>>
vars == <<mergeVars, fetchVars, callerVars, tableVars>>

----------------------------------------------------------------------------
(* Values *)

None == "None"
NA == "N/A"

BATCH_SIZE == 1000

\* Bounds of the model.
MaxLen == 2          \* records in an enumerated input file
MaxRows == 2         \* rows in an enumerated store snapshot
MaxBatches == 2      \* full batches in a generated large input file
MaxRetries == 2      \* largest max_retries argument of a fetch

Symbols == {"AAPL", "MSFT"}                  \* symbols of input records
StoredTickers == {"AAPL", "MSFT"}            \* tickers the store may hold
InputCaps == {NA, None, "3000"}              \* market_cap of an input record
StoredCaps == {None, "2900"}                 \* market_cap of a stored row
Exchanges == {"nasdaq", "nyse"}
StoreIds == 1..MaxRows

Min(a, b) == IF a < b THEN a ELSE b

Range(s) == {s[k] : k \in DOMAIN s}

\* All sequences over S of length at most n.
SeqsUpTo(S, n) == UNION {[1..k -> S] : k \in 0..n}

----------------------------------------------------------------------------
(* merge_stocks_data.py: pure parts *)

\* Variant of fetch_existing_stocks: rows without a market_cap are left out.
fetch_existing_stocks_skip_null(data) ==
    [t \in {data[k].ticker : k \in {m \in DOMAIN data :
                                          data[m].market_cap # None}} |->
        LET last == CHOOSE k \in DOMAIN data :
                        /\ data[k].ticker = t
                        /\ \A m \in DOMAIN data : data[m].ticker = t => m <= k
        IN [id |-> data[last].id, market_cap |-> data[last].market_cap]]

\* fetch_existing_stocks, lines 103-104: the dict comprehension over
\* response.data; a later row of the same ticker replaces an earlier one.
fetch_existing_stocks(data) ==
    [t \in {data[k].ticker : k \in DOMAIN data} |->
        LET last == CHOOSE k \in DOMAIN data :
                        /\ data[k].ticker = t
                        /\ \A m \in DOMAIN data : data[m].ticker = t => m <= k
        IN [id |-> data[last].id, market_cap |-> data[last].market_cap]]

\* Variant of stock_entry: the 'N/A' marker is written as it is.
stock_entry_keeps_na(stock, exch) ==
    [ticker |-> stock.symbol, market_cap |-> stock.market_cap,
     exchange |-> exch]

\* Lines 114-121: the entry built from one record of the file.  company_name,
\* sector and industry are copied unchanged from the record and read by no
\* decision; the model leaves them out of records and entries alike.
stock_entry(stock, exch) ==
    [ticker |-> stock.symbol,
     market_cap |-> IF stock.market_cap = NA THEN None ELSE stock.market_cap,
     exchange |-> exch]

\* Line 123.
is_new(stock, map) == stock.symbol \notin DOMAIN map

\* Variant of needs_refresh: the test of line 128 inverted (is not None).
needs_refresh_inverted(existing_data) == existing_data.market_cap # None

\* Line 128.
needs_refresh(existing_data) == existing_data.market_cap = None

\* Variant of with_id: the assignment of line 129 left out.
with_id_missing(entry, existing_data) == entry

\* Line 129: stock_entry['id'] = existing_data['id'].
with_id(entry, existing_data) ==
    [ticker |-> entry.ticker, market_cap |-> entry.market_cap,
     exchange |-> entry.exchange, id |-> existing_data.id]

\* Variant of classify_step: the update branch also appends to new_stocks.
classify_step_both(stock, exch, map, ns, tbu) ==
    LET entry == stock_entry(stock, exch) IN
    IF is_new(stock, map)
    THEN <<Append(ns, entry), tbu>>
    ELSE LET existing_data == map[stock.symbol] IN
         IF needs_refresh(existing_data)
         THEN <<Append(ns, entry), Append(tbu, with_id(entry, existing_data))>>
         ELSE <<ns, tbu>>

\* Variant of classify_step: an absent record without a market cap is skipped.
classify_step_skip_na(stock, exch, map, ns, tbu) ==
    LET entry == stock_entry(stock, exch) IN
    IF is_new(stock, map)
    THEN IF entry.market_cap = None THEN <<ns, tbu>> ELSE <<Append(ns, entry), tbu>>
    ELSE LET existing_data == map[stock.symbol] IN
         IF needs_refresh(existing_data)
         THEN <<ns, Append(tbu, with_id(entry, existing_data))>>
         ELSE <<ns, tbu>>

\* Variant of classify_step: entries are put at the front of their list.
classify_step_prepend(stock, exch, map, ns, tbu) ==
    LET entry == stock_entry(stock, exch) IN
    IF is_new(stock, map)
    THEN <<(<<entry>>) \o ns, tbu>>
    ELSE LET existing_data == map[stock.symbol] IN
         IF needs_refresh(existing_data)
         THEN <<ns, (<<with_id(entry, existing_data)>>) \o tbu>>
         ELSE <<ns, tbu>>

\* Lines 114-130: one iteration of the loop over stocks_data; gives the two
\* lists after the iteration.
classify_step(stock, exch, map, ns, tbu) ==
    LET entry == stock_entry(stock, exch) IN
    IF is_new(stock, map)
    THEN <<Append(ns, entry), tbu>>
    ELSE LET existing_data == map[stock.symbol] IN
         IF needs_refresh(existing_data)
         THEN <<ns, Append(tbu, with_id(entry, existing_data))>>
         ELSE <<ns, tbu>>

\* Variant of batch_pending: the range runs one value too far.
batch_pending_inclusive(stocks, k) == k <= Len(stocks)

\* Line 137: range(0, len(stocks), BATCH_SIZE) still has the value k.
batch_pending(stocks, k) == k < Len(stocks)

\* Variant of batch_slice: the slice is one record short.
batch_slice_short(stocks, k) ==
    SubSeq(stocks, k + 1, Min(k + BATCH_SIZE - 1, Len(stocks)))

\* Line 138: stocks[k:k + BATCH_SIZE].
batch_slice(stocks, k) == SubSeq(stocks, k + 1, Min(k + BATCH_SIZE, Len(stocks)))

\* Lines 146, 148: the batch number printed.
batch_number(k) == (k \div BATCH_SIZE) + 1

\* Lines 140-143: the conflict policy of the upsert.
upsert_mode(operation_type) ==
    IF operation_type = "new" THEN "ignore_duplicates" ELSE "on_conflict_id"

\* Variant of next_offset: the loop is left at the first error response.
next_offset_break(stocks, k, outcome) ==
    IF outcome = "error" THEN Len(stocks) ELSE k + BATCH_SIZE

\* Line 137: the next value of the range after the body ran for k, whatever
\* the response was (lines 145-148 only print).
next_offset(stocks, k, outcome) == k + BATCH_SIZE

----------------------------------------------------------------------------
(* Inputs *)

InputRecords == [symbol : Symbols, market_cap : InputCaps]

SmallFiles == SeqsUpTo(InputRecords, MaxLen)

\* Snapshots of stocks_search: ids are store-assigned and distinct, the ticker
\* is the natural key and distinct, rows come back ordered by id.
StoredRows == [id : StoreIds, ticker : StoredTickers, market_cap : StoredCaps]

SmallRows ==
    {r \in SeqsUpTo(StoredRows, MaxRows) :
        \A a, b \in DOMAIN r :
            a < b => r[a].id < r[b].id /\ r[a].ticker # r[b].ticker}

\* Generated large inputs (test_process_stocks_batch_processing, lines
\* 198-206 of the test file): STOCK0 .. STOCK{n-1}.
BigFile(n) ==
    [k \in 1..n |-> [symbol |-> "STOCK" \o ToString(k - 1),
                     market_cap |-> "1000000000"]]

BigRows(n) ==
    [k \in 1..n |-> [id |-> k, ticker |-> "STOCK" \o ToString(k - 1),
                     market_cap |-> None]]

BigSizes ==
    {BATCH_SIZE + BATCH_SIZE \div 2}
        \cup {b * BATCH_SIZE + d : b \in 1..MaxBatches, d \in {0, 1}}

\* Fixtures of test_merge_stocks_data.py: sample_json_data (lines 12-34),
\* test_data (lines 174-180) and existing_stocks_response (lines 36-49).
sample_json_data ==
    <<[symbol |-> "AAPL", market_cap |-> "3000000000000"],
      [symbol |-> "GOOGL", market_cap |-> NA],
      [symbol |-> "TSLA", market_cap |-> "800000000000"]>>

test_data == <<[symbol |-> "MSFT", market_cap |-> "2500000000000"]>>

existing_stocks_response ==
    <<[id |-> 1, ticker |-> "AAPL", market_cap |-> "2900000000000"],
      [id |-> 2, ticker |-> "MSFT", market_cap |-> None]>>

TestFiles == {sample_json_data, test_data, sample_json_data \o test_data}

FileKinds == {"ok", "missing", "invalid"}

UpsertOutcomes == {"ok", "error", "raise"}

Files ==
    {[kind |-> "ok", data |-> d] : d \in SmallFiles}
        \cup {[kind |-> k, data |-> <<>>] : k \in FileKinds \ {"ok"}}

----------------------------------------------------------------------------
(* merge_stocks_data.py: process_stocks as a state machine *)

FetchIdle ==
    /\ fpc = "idle"
    /\ fn = "none"
    /\ max_retries = 0
    /\ api_key = FALSE
    /\ endpoint = 0
    /\ attempt = 0
    /\ result = <<>>
    /\ requests = <<>>
    /\ issued = 0
    /\ sleeps = <<>>
    /\ ret = "none"

\* No caller of the fetch functions runs.
CallerIdle ==
    /\ caller = "none"
    /\ cpc = "idle"
    /\ trail = <<>>
    /\ cret = "none"
    /\ n_stocks = 0
    /\ sidx = 0
    /\ needs = <<FALSE, FALSE>>
    /\ processed = <<>>
    /\ ages = <<>>

\* No _upsert_fundamentals_record call has been made.
TableIdle ==
    /\ stock_fundamentals = <<>>
    /\ upserted = <<>>

MergeStart ==
    /\ pc = "fetch_existing"
    /\ existing_symbol_to_id_map = <<>>
    /\ stocks_data = <<>>
    /\ idx = 0
    /\ new_stocks = <<>>
    /\ to_be_updated = <<>>
    /\ i = 0
    /\ calls = <<>>
    /\ log = <<>>
    /\ run = 1

\* State at the call process_stocks(path, exchange): the store and the file
\* are the inputs.
Init ==
    /\ MergeStart
    /\ FetchIdle
    /\ CallerIdle
    /\ TableIdle
    /\ \/ /\ rows \in SmallRows
          /\ file \in Files
          /\ exchange \in Exchanges
       \/ /\ \E d \in TestFiles : file = [kind |-> "ok", data |-> d]
          /\ rows \in {<<>>, existing_stocks_response}
          /\ exchange \in Exchanges
       \/ /\ \E n \in BigSizes : file = [kind |-> "ok", data |-> BigFile(n)]
          /\ rows = <<>>
          /\ exchange = "nasdaq"
       \/ /\ file = [kind |-> "ok", data |-> BigFile(BATCH_SIZE + 1)]
          /\ rows = BigRows(BATCH_SIZE + 1)
          /\ exchange = "nasdaq"

\* Lines 175-176: the except clause of process_stocks.
caught(lines) == Append(lines, [line |-> "Error processing stocks:"])

\* Line 161 (lines 102-104): the select either raises or returns the rows.
fetch_existing_stocks_call ==
    /\ pc = "fetch_existing"
    /\ \E raised \in BOOLEAN :
        IF raised
        THEN /\ pc' = "failed"
             /\ log' = caught(log)
             /\ UNCHANGED existing_symbol_to_id_map
        ELSE /\ pc' = "open"
             /\ existing_symbol_to_id_map' = fetch_existing_stocks(rows)
             /\ UNCHANGED log
    /\ UNCHANGED <<rows, file, exchange, stocks_data, idx, new_stocks,
                   to_be_updated, i, calls>>
    /\ UNCHANGED fetchVars
    /\ UNCHANGED callerVars
    /\ UNCHANGED <<run, tableVars>>

\* Variant of file_loads: a file that cannot be read counts as an empty one.
file_loads_always(f) == TRUE

\* Lines 108-109: open(path) and json.load(file) both succeed.
file_loads(f) == f.kind = "ok"

\* Lines 108-112: open(path) and json.load(file); either may raise.
_process_stock_data_open ==
    /\ pc = "open"
    /\ IF file_loads(file)
       THEN /\ pc' = "classify"
            /\ stocks_data' = file.data
            /\ idx' = 0
            /\ new_stocks' = <<>>
            /\ to_be_updated' = <<>>
            /\ UNCHANGED log
       ELSE /\ pc' = "failed"
            /\ log' = caught(log)
            /\ UNCHANGED <<stocks_data, idx, new_stocks, to_be_updated>>
    /\ UNCHANGED <<rows, file, exchange, existing_symbol_to_id_map, i, calls>>
    /\ UNCHANGED fetchVars
    /\ UNCHANGED callerVars
    /\ UNCHANGED <<run, tableVars>>

\* Lines 113-130: one iteration of the loop over stocks_data.
_process_stock_data_loop ==
    /\ pc = "classify"
    /\ idx < Len(stocks_data)
    /\ LET after == classify_step(stocks_data[idx + 1], exchange,
                                  existing_symbol_to_id_map,
                                  new_stocks, to_be_updated)
       IN /\ new_stocks' = after[1]
          /\ to_be_updated' = after[2]
    /\ idx' = idx + 1
    /\ UNCHANGED <<pc, rows, file, exchange, existing_symbol_to_id_map,
                   stocks_data, i, calls, log>>
    /\ UNCHANGED fetchVars
    /\ UNCHANGED callerVars
    /\ UNCHANGED <<run, tableVars>>

\* Line 132 and line 167: the lists are returned and the insert phase starts.
_process_stock_data_return ==
    /\ pc = "classify"
    /\ idx = Len(stocks_data)
    /\ pc' = "insert"
    /\ i' = 0
    /\ UNCHANGED <<rows, file, exchange, existing_symbol_to_id_map,
                   stocks_data, idx, new_stocks, to_be_updated, calls, log>>
    /\ UNCHANGED fetchVars
    /\ UNCHANGED callerVars
    /\ UNCHANGED <<run, tableVars>>

\* The list and the operation_type of the running _insert_stocks_in_batches.
current_stocks == IF pc = "insert" THEN new_stocks ELSE to_be_updated
current_type == IF pc = "insert" THEN "new" ELSE "update"

\* Lines 137-148: one iteration of the batch loop: one upsert call, whose
\* response has no error, has an error, or which raises (the exception leaves
\* _insert_stocks_in_batches and is caught at line 175).
_insert_stocks_in_batches_loop ==
    /\ pc \in {"insert", "update"}
    /\ batch_pending(current_stocks, i)
    /\ \E outcome \in UpsertOutcomes :
        LET batch == batch_slice(current_stocks, i)
            call == [batch |-> batch, mode |-> upsert_mode(current_type),
                     outcome |-> outcome]
        IN /\ calls' = Append(calls, call)
           /\ CASE outcome = "raise" ->
                     /\ pc' = "failed"
                     /\ log' = caught(log)
                     /\ UNCHANGED i
                [] outcome = "error" ->
                     /\ log' = Append(log, [line |-> "Error inserting",
                                            type |-> current_type,
                                            batch |-> batch_number(i)])
                     /\ i' = next_offset(current_stocks, i, outcome)
                     /\ UNCHANGED pc
                [] outcome = "ok" ->
                     /\ log' = Append(log, [line |-> "Successfully inserted",
                                            type |-> current_type,
                                            batch |-> batch_number(i),
                                            count |-> Len(batch)])
                     /\ i' = next_offset(current_stocks, i, outcome)
                     /\ UNCHANGED pc
    /\ UNCHANGED <<rows, file, exchange, existing_symbol_to_id_map,
                   stocks_data, idx, new_stocks, to_be_updated>>
    /\ UNCHANGED fetchVars
    /\ UNCHANGED callerVars
    /\ UNCHANGED <<run, tableVars>>

\* The range of line 137 is exhausted: _insert_stocks_in_batches returns.
\* After the insert phase the update phase starts (line 170); after the
\* update phase the summary is printed (lines 173, 152-156).
_insert_stocks_in_batches_return ==
    /\ pc \in {"insert", "update"}
    /\ ~batch_pending(current_stocks, i)
    /\ IF pc = "insert"
       THEN /\ pc' = "update"
            /\ i' = 0
            /\ UNCHANGED log
       ELSE /\ pc' = "done"
            /\ log' = Append(log, [line |-> "Summary:",
                                   existing |-> Cardinality(DOMAIN existing_symbol_to_id_map),
                                   new |-> Len(new_stocks),
                                   updated |-> Len(to_be_updated)])
            /\ UNCHANGED i
    /\ UNCHANGED <<rows, file, exchange, existing_symbol_to_id_map,
                   stocks_data, idx, new_stocks, to_be_updated, calls>>
    /\ UNCHANGED fetchVars
    /\ UNCHANGED callerVars
    /\ UNCHANGED <<run, tableVars>>

Next ==
    \/ fetch_existing_stocks_call
    \/ _process_stock_data_open
    \/ _process_stock_data_loop
    \/ _process_stock_data_return
    \/ _insert_stocks_in_batches_loop
    \/ _insert_stocks_in_batches_return

Spec == Init /\ [][Next]_vars

----------------------------------------------------------------------------
(* fill-fundamentals.py: the fetch functions and their retry loops *)

COOL_OFF == 30       \* time.sleep(30 + random.uniform(0, 5))
PACING == 2          \* time.sleep(2 + random.uniform(0, 1))

\* Lines 39-60: the endpoints, in the order the dict is iterated.
endpoints == <<"overview", "quote", "income", "balance", "cashflow">>

\* What one HTTP request can come back with:
\*   ok            2xx, body with the expected fields
\*   rate_limited  HTTP 429
\*   note          2xx, JSON body carrying the 'API call frequency' Note
\*   error         the request raises, raise_for_status() raises, or the
\*                 body is not JSON
\*   malformed     2xx, JSON body without the expected fields
YahooResponses == {"ok", "rate_limited", "error", "malformed"}
AlphaVantageResponses == {"ok", "rate_limited", "note", "error", "malformed"}

RateLimitResponses == {"rate_limited", "note"}

RECURSIVE Pow2(_)
Pow2(n) == IF n = 0 THEN 1 ELSE 2 * Pow2(n - 1)

\* Seconds slept, without the random jitter added to them.
slept(kind, seconds) == [kind |-> kind, seconds |-> seconds]

\* Variant of next_attempt: a rate-limit response does not use up an attempt.
next_attempt_free(a, response) ==
    IF response \in RateLimitResponses THEN a ELSE a + 1

\* Lines 65, 195, 237: `for attempt in range(max_retries)`; every `continue`
\* (lines 78, 87, 97, 211, 251, 262) and the fall-through of line 227 take
\* the next value of the range.
next_attempt(a, response) == a + 1

\* Variant of is_last_attempt: the except clause gives up at once.
is_last_attempt_always(a, m) == TRUE

\* Variant of is_last_attempt: the test is off by one and never true.
is_last_attempt_never(a, m) == a = m

\* Lines 94, 223, 259: `if attempt == max_retries - 1`.
is_last_attempt(a, m) == a = m - 1

\* Variant of is_throttled: only the status code is looked at.
is_throttled_status_only(response) == response = "rate_limited"

\* Lines 75 and 84: HTTP 429, or a 2xx body whose Note mentions
\* 'API call frequency'.
is_throttled(response) == response \in RateLimitResponses

\* Variant of process_alpha_vantage_data: one collected body is enough.
process_alpha_vantage_data_any(data) ==
    IF DOMAIN data = {} THEN {"None"} ELSE {"record"}

\* Lines 103-140: None unless all five keys are present; a body without the
\* expected fields gives default zeros or raises inside the try, depending
\* on its shape.
process_alpha_vantage_data(data) ==
    IF \E k \in DOMAIN endpoints : endpoints[k] \notin DOMAIN data
    THEN {"None"}
    ELSE IF \A e \in DOMAIN data : data[e] = "ok"
         THEN {"record"}
         ELSE {"record", "None"}

\* Line 89: result[endpoint_name] = data.
store_result(data, name, body) ==
    [e \in DOMAIN data \cup {name} |-> IF e = name THEN body ELSE data[e]]

FetchFunctions ==
    {"fetch_yahoo_data", "fetch_detailed_yahoo_data", "fetch_alpha_vantage_data"}

MergeIdle ==
    /\ pc = "idle"
    /\ rows = <<>>
    /\ file = [kind |-> "ok", data |-> <<>>]
    /\ exchange = "nasdaq"
    /\ existing_symbol_to_id_map = <<>>
    /\ stocks_data = <<>>
    /\ idx = 0
    /\ new_stocks = <<>>
    /\ to_be_updated = <<>>
    /\ i = 0
    /\ calls = <<>>
    /\ log = <<>>
    /\ run = 0

\* State at the call of one of the fetch functions.
FetchInit ==
    /\ MergeIdle
    /\ CallerIdle
    /\ TableIdle
    /\ fn \in FetchFunctions
    /\ max_retries \in 1..MaxRetries
    /\ api_key \in IF fn = "fetch_alpha_vantage_data" THEN BOOLEAN ELSE {TRUE}
    /\ fpc = IF fn = "fetch_alpha_vantage_data" THEN "enter" ELSE "loop"
    /\ endpoint = 0
    /\ attempt = 0
    /\ result = <<>>
    /\ requests = <<>>
    /\ issued = 0
    /\ sleeps = <<>>
    /\ ret = "none"

\* `return value`.
returns(value) == fpc' = "returned" /\ ret' = value

\* Lines 195-227: one iteration of the loop of fetch_yahoo_data.
fetch_yahoo_data_attempt ==
    /\ fpc = "loop"
    /\ fn = "fetch_yahoo_data"
    /\ attempt < max_retries
    /\ \E response \in YahooResponses :
        LET delay == slept("backoff", Pow2(attempt)) IN
        /\ requests' = Append(requests, response)
        /\ issued' = issued + 1
        /\ CASE response = "ok" ->
                  /\ returns("record")
                  /\ sleeps' = <<delay>>
                  /\ UNCHANGED attempt
             [] response = "rate_limited" ->
                  \* line 210, the cool-off, is commented out
                  /\ attempt' = next_attempt(attempt, response)
                  /\ sleeps' = <<delay>>
                  /\ UNCHANGED <<fpc, ret>>
             [] response \in {"error", "malformed"} ->
                  IF is_last_attempt(attempt, max_retries)
                  THEN /\ returns("None")
                       /\ sleeps' = <<delay>>
                       /\ UNCHANGED attempt
                  ELSE /\ attempt' = next_attempt(attempt, response)
                       /\ sleeps' = <<delay, slept("retry", Pow2(attempt))>>
                       /\ UNCHANGED <<fpc, ret>>
    /\ UNCHANGED <<fn, max_retries, api_key, endpoint, result>>
    /\ UNCHANGED mergeVars
    /\ UNCHANGED tableVars
    /\ UNCHANGED callerVars

\* Line 228: the range is exhausted.
fetch_yahoo_data_exhausted ==
    /\ fpc = "loop"
    /\ fn = "fetch_yahoo_data"
    /\ attempt >= max_retries
    /\ returns("None")
    /\ UNCHANGED <<fn, max_retries, api_key, endpoint, attempt, result,
                   requests, issued, sleeps>>
    /\ UNCHANGED mergeVars
    /\ UNCHANGED tableVars
    /\ UNCHANGED callerVars

\* Lines 237-262: one iteration of the loop of fetch_detailed_yahoo_data.
fetch_detailed_yahoo_data_attempt ==
    /\ fpc = "loop"
    /\ fn = "fetch_detailed_yahoo_data"
    /\ attempt < max_retries
    /\ \E response \in YahooResponses :
        LET delay == slept("backoff", Pow2(attempt)) IN
        /\ requests' = Append(requests, response)
        /\ issued' = issued + 1
        /\ CASE response = "ok" ->
                  /\ returns("record")
                  /\ sleeps' = <<delay>>
                  /\ UNCHANGED attempt
             [] response = "rate_limited" ->
                  /\ attempt' = next_attempt(attempt, response)
                  /\ sleeps' = <<delay, slept("cool_off", COOL_OFF)>>
                  /\ UNCHANGED <<fpc, ret>>
             [] response \in {"error", "malformed"} ->
                  IF is_last_attempt(attempt, max_retries)
                  THEN /\ returns("None")
                       /\ sleeps' = <<delay>>
                       /\ UNCHANGED attempt
                  ELSE /\ attempt' = next_attempt(attempt, response)
                       /\ sleeps' = <<delay>>
                       /\ UNCHANGED <<fpc, ret>>
    /\ UNCHANGED <<fn, max_retries, api_key, endpoint, result>>
    /\ UNCHANGED mergeVars
    /\ UNCHANGED tableVars
    /\ UNCHANGED callerVars

\* Line 263: the range is exhausted.
fetch_detailed_yahoo_data_exhausted ==
    /\ fpc = "loop"
    /\ fn = "fetch_detailed_yahoo_data"
    /\ attempt >= max_retries
    /\ returns("None")
    /\ UNCHANGED <<fn, max_retries, api_key, endpoint, attempt, result,
                   requests, issued, sleeps>>
    /\ UNCHANGED mergeVars
    /\ UNCHANGED tableVars
    /\ UNCHANGED callerVars

\* Lines 32-64: the key check, then the first endpoint.
fetch_alpha_vantage_data_enter ==
    /\ fpc = "enter"
    /\ IF api_key
       THEN /\ fpc' = "loop"
            /\ endpoint' = 1
            /\ UNCHANGED ret
       ELSE /\ returns("None")
            /\ UNCHANGED endpoint
    /\ UNCHANGED <<fn, max_retries, api_key, attempt, result, requests,
                   issued, sleeps>>
    /\ UNCHANGED mergeVars
    /\ UNCHANGED tableVars
    /\ UNCHANGED callerVars

\* Lines 65-97: one iteration of the retry loop of the running endpoint.
fetch_alpha_vantage_data_attempt ==
    /\ fpc = "loop"
    /\ fn = "fetch_alpha_vantage_data"
    /\ attempt < max_retries
    /\ \E response \in AlphaVantageResponses :
        LET pacing == slept("pacing", PACING) IN
        /\ requests' = Append(requests, response)
        /\ issued' = issued + 1
        /\ CASE response = "error" ->
                  \* lines 92-97: the except clause
                  IF is_last_attempt(attempt, max_retries)
                  THEN /\ returns("None")
                       /\ sleeps' = <<pacing>>
                       /\ UNCHANGED <<attempt, result>>
                  ELSE /\ attempt' = next_attempt(attempt, response)
                       /\ sleeps' = <<pacing, slept("retry", Pow2(attempt))>>
                       /\ UNCHANGED <<fpc, ret, result>>
             [] is_throttled(response) ->
                  \* lines 75-78 and 84-87
                  /\ attempt' = next_attempt(attempt, response)
                  /\ sleeps' = <<pacing, slept("cool_off", COOL_OFF)>>
                  /\ UNCHANGED <<fpc, ret, result>>
             [] OTHER ->
                  \* lines 89-90: stored, break
                  /\ result' = store_result(result, endpoints[endpoint], response)
                  /\ fpc' = "break"
                  /\ sleeps' = <<pacing>>
                  /\ UNCHANGED <<attempt, ret>>
    /\ UNCHANGED <<fn, max_retries, api_key, endpoint>>
    /\ UNCHANGED mergeVars
    /\ UNCHANGED tableVars
    /\ UNCHANGED callerVars

\* The retry loop of an endpoint is over, by break or by exhaustion of the
\* range.
endpoint_loop_over ==
    /\ fn = "fetch_alpha_vantage_data"
    /\ \/ fpc = "break"
       \/ fpc = "loop" /\ attempt >= max_retries

\* Line 64: the outer loop takes the next endpoint.
fetch_alpha_vantage_data_next_endpoint ==
    /\ endpoint_loop_over
    /\ endpoint < Len(endpoints)
    /\ fpc' = "loop"
    /\ endpoint' = endpoint + 1
    /\ attempt' = 0
    /\ requests' = <<>>
    /\ sleeps' = <<>>
    /\ UNCHANGED <<fn, max_retries, api_key, result, issued, ret>>
    /\ UNCHANGED mergeVars
    /\ UNCHANGED tableVars
    /\ UNCHANGED callerVars

\* Line 100: after the last endpoint, the collected data is processed.
fetch_alpha_vantage_data_return ==
    /\ endpoint_loop_over
    /\ endpoint = Len(endpoints)
    /\ \E value \in process_alpha_vantage_data(result) : returns(value)
    /\ UNCHANGED <<fn, max_retries, api_key, endpoint, attempt, result,
                   requests, issued, sleeps>>
    /\ UNCHANGED mergeVars
    /\ UNCHANGED tableVars
    /\ UNCHANGED callerVars

FetchNext ==
    \/ fetch_yahoo_data_attempt
    \/ fetch_yahoo_data_exhausted
    \/ fetch_detailed_yahoo_data_attempt
    \/ fetch_detailed_yahoo_data_exhausted
    \/ fetch_alpha_vantage_data_enter
    \/ fetch_alpha_vantage_data_attempt
    \/ fetch_alpha_vantage_data_next_endpoint
    \/ fetch_alpha_vantage_data_return

FetchSpec == FetchInit /\ [][FetchNext]_vars

\* The fetch runs in one thread, its sleeps are finite and every request is
\* answered (by a response or by an exception): a step that can be taken is
\* taken.
FetchFairSpec == FetchSpec /\ WF_vars(FetchNext)

----------------------------------------------------------------------------
(* fill-fundamentals.py: the callers of the fetch functions *)

\* Default max_retries of the fetch functions; the callers pass none.
YAHOO_MAX_RETRIES == 1             \* line 192
DETAILED_MAX_RETRIES == 5          \* line 231
ALPHA_VANTAGE_MAX_RETRIES == 1     \* line 28

MaxStocks == 2       \* rows of the stocks table main iterates over

Callers == {"fetch_stock_data", "process_stock", "main"}

\* fetch_stock_data and process_stock: Yahoo, then Alpha Vantage.
FallbackCallers == {"fetch_stock_data", "process_stock"}

\* The caller calls fetch function f with max_retries m.
call_fetch(f, m) ==
    /\ fn' = f
    /\ max_retries' = m
    /\ fpc' = IF f = "fetch_alpha_vantage_data" THEN "enter" ELSE "loop"
    /\ endpoint' = 0
    /\ attempt' = 0
    /\ result' = <<>>
    /\ requests' = <<>>
    /\ issued' = 0
    /\ sleeps' = <<>>
    /\ ret' = "none"
    /\ UNCHANGED api_key

\* The caller has taken the value the fetch returned; no fetch runs.
fetch_over ==
    /\ fn' = "none"
    /\ max_retries' = 0
    /\ fpc' = "idle"
    /\ endpoint' = 0
    /\ attempt' = 0
    /\ result' = <<>>
    /\ requests' = <<>>
    /\ issued' = 0
    /\ sleeps' = <<>>
    /\ ret' = "none"
    /\ UNCHANGED api_key

\* The fetch that has just returned, as the caller sees it.
returned_fetch == [fn |-> fn, ret |-> ret, issued |-> issued]

\* Variant of primary_succeeded: the Yahoo record is never taken.
primary_succeeded_never(yahoo_data) == FALSE

\* Lines 20, 151, 444: `if yahoo_data:`.
primary_succeeded(yahoo_data) == yahoo_data = "record"

\* State at the call of fetch_stock_data, process_stock or main.
RunInit ==
    /\ MergeIdle
    /\ TableIdle
    /\ ages = <<>>
    /\ caller \in Callers
    /\ api_key \in BOOLEAN
    /\ trail = <<>>
    /\ cret = "none"
    /\ sidx = 0
    /\ needs = <<FALSE, FALSE>>
    /\ processed = <<>>
    /\ endpoint = 0
    /\ attempt = 0
    /\ result = <<>>
    /\ requests = <<>>
    /\ issued = 0
    /\ sleeps = <<>>
    /\ ret = "none"
    /\ IF caller = "main"
       THEN /\ n_stocks \in 0..MaxStocks
            /\ cpc = "start"
            /\ fn = "none"
            /\ max_retries = 0
            /\ fpc = "idle"
       ELSE \* lines 19 and 150: the first statement calls fetch_yahoo_data
            /\ n_stocks = 0
            /\ cpc = "yahoo"
            /\ fn = "fetch_yahoo_data"
            /\ max_retries = YAHOO_MAX_RETRIES
            /\ fpc = "loop"

\* fetch_stock_data, lines 20-25, and process_stock, lines 151-158: Yahoo's
\* record is returned, or Alpha Vantage is called.
fallback_after_yahoo ==
    /\ caller \in FallbackCallers
    /\ cpc = "yahoo"
    /\ fpc = "returned"
    /\ trail' = Append(trail, returned_fetch)
    /\ IF primary_succeeded(ret)
       THEN /\ cret' = ret
            /\ cpc' = "done"
            /\ fetch_over
       ELSE /\ call_fetch("fetch_alpha_vantage_data", ALPHA_VANTAGE_MAX_RETRIES)
            /\ cpc' = "alpha_vantage"
            /\ UNCHANGED cret
    /\ UNCHANGED <<caller, n_stocks, sidx, needs, processed, ages>>
    /\ UNCHANGED mergeVars
    /\ UNCHANGED tableVars

\* fetch_stock_data, line 25, and process_stock, lines 158-163: what Alpha
\* Vantage returned is returned (a record, or None).
fallback_return ==
    /\ caller \in FallbackCallers
    /\ cpc = "alpha_vantage"
    /\ fpc = "returned"
    /\ trail' = Append(trail, returned_fetch)
    /\ cret' = ret
    /\ cpc' = "done"
    /\ fetch_over
    /\ UNCHANGED <<caller, n_stocks, sidx, needs, processed, ages>>
    /\ UNCHANGED mergeVars
    /\ UNCHANGED tableVars

\* Variant of item_done: a stock that fails ends the run.
item_done_abort(outcome) ==
    IF outcome \in {"error", "fetch_failed"} THEN "done" ELSE "next"

\* Lines 545 and 602: whatever _process_single_stock did with the stock
\* (lines 491, 497-498, 500-502 all return normally), the for loop of main
\* goes on.
item_done(outcome) == "next"

\* _process_single_stock is over for the stock at hand.
finish_stock(outcome) ==
    /\ processed' = Append(processed, [stock |-> sidx, outcome |-> outcome,
                                        wrote |-> cpc = "update"])
    /\ cpc' = item_done(outcome)

\* Lines 531-545: the select of the stocks table and the Yahoo session; main
\* returns without work when either fails (or when there are no stocks).
main_start ==
    /\ caller = "main"
    /\ cpc = "start"
    /\ \E outcome \in {"ok", "select_raises", "no_session"} :
        IF outcome = "ok" /\ n_stocks > 0
        THEN /\ cpc' = "check"
             /\ sidx' = 1
        ELSE /\ cpc' = (IF outcome = "ok" THEN "done" ELSE "aborted")
             /\ UNCHANGED sidx
    /\ UNCHANGED <<caller, trail, cret, n_stocks, needs, processed, ages>>
    /\ UNCHANGED fetchVars
    /\ UNCHANGED mergeVars
    /\ UNCHANGED tableVars

\* Ages are in minutes; NoRow stands for an empty answer of the select.
NoRow == -1
METRICS_MAX_AGE == 15              \* line 421: timedelta(minutes=15)
FUNDAMENTALS_MAX_AGE == 24 * 60    \* line 433: timedelta(days=1)

\* What the selects of lines 417 and 427 may answer for a stock: no row, or
\* a row as old as the threshold, or a minute older.
MetricsAges == {NoRow, METRICS_MAX_AGE, METRICS_MAX_AGE + 1}
FundamentalsAges == {NoRow, FUNDAMENTALS_MAX_AGE, FUNDAMENTALS_MAX_AGE + 1}

\* Variant of needs_metrics: a row as old as the threshold is stale too.
needs_metrics_inclusive(age) == age = NoRow \/ age >= METRICS_MAX_AGE

\* Lines 418-424: no stock_metrics row, or current_time - last_update is more
\* than 15 minutes.
needs_metrics(age) == IF age = NoRow THEN TRUE ELSE age > METRICS_MAX_AGE

\* Lines 429-435: no stock_fundamentals row, or current_time -
\* last_fundamental of the latest row is more than one day.
needs_fundamentals(age) ==
    IF age = NoRow THEN TRUE ELSE age > FUNDAMENTALS_MAX_AGE

\* Lines 412-437.
_check_update_needs(a) == <<needs_metrics(a[1]), needs_fundamentals(a[2])>>

\* Lines 481-487 and 495-502: _check_update_needs raises (caught by
\* _process_single_stock) or tells what is stale; then Yahoo is called
\* (line 443) or the stock needs nothing.
_check_update_needs_call ==
    /\ caller = "main"
    /\ cpc = "check"
    /\ \/ /\ finish_stock("error")
          /\ UNCHANGED <<needs, ages, fetchVars>>
       \/ \E m \in MetricsAges, f \in FundamentalsAges :
            LET n == _check_update_needs(<<m, f>>) IN
            /\ ages' = <<m, f>>
            /\ needs' = n
            /\ IF n[1] \/ n[2]
               THEN /\ call_fetch("fetch_yahoo_data", YAHOO_MAX_RETRIES)
                    /\ cpc' = "yahoo"
                    /\ UNCHANGED processed
               ELSE /\ finish_stock("no_update_needed")
                    /\ UNCHANGED fetchVars
    /\ UNCHANGED <<caller, trail, cret, n_stocks, sidx>>
    /\ UNCHANGED mergeVars
    /\ UNCHANGED tableVars

\* Lines 443-452: after Yahoo's quote, the detailed Yahoo fetch; without
\* it, Alpha Vantage.
_fetch_stock_data_with_fallback_after_yahoo ==
    /\ caller = "main"
    /\ cpc = "yahoo"
    /\ fpc = "returned"
    /\ trail' = Append(trail, returned_fetch)
    /\ IF primary_succeeded(ret)
       THEN /\ call_fetch("fetch_detailed_yahoo_data", DETAILED_MAX_RETRIES)
            /\ cpc' = "detailed"
       ELSE /\ call_fetch("fetch_alpha_vantage_data", ALPHA_VANTAGE_MAX_RETRIES)
            /\ cpc' = "alpha_vantage"
    /\ UNCHANGED <<caller, cret, n_stocks, sidx, needs, processed, ages>>
    /\ UNCHANGED mergeVars
    /\ UNCHANGED tableVars

\* Variant of skips_stock: only a missing quote skips the stock.
skips_stock_without_quote(yahoo_data, detailed_data) == yahoo_data # "record"

\* Line 489: `if not yahoo_data or not detailed_data`.
skips_stock(yahoo_data, detailed_data) ==
    yahoo_data # "record" \/ detailed_data # "record"

\* Lines 447-458 and 487-493: the triple is returned; _process_single_stock
\* skips the stock when yahoo_data or detailed_data is missing.
_fetch_stock_data_with_fallback_return ==
    /\ caller = "main"
    /\ cpc \in {"detailed", "alpha_vantage"}
    /\ fpc = "returned"
    /\ trail' = Append(trail, returned_fetch)
    /\ IF skips_stock(IF cpc = "detailed" THEN trail[1].ret ELSE ret, ret)
       THEN /\ finish_stock("fetch_failed")
       ELSE /\ cpc' = "update"
            /\ UNCHANGED processed
    /\ fetch_over
    /\ UNCHANGED <<caller, cret, n_stocks, sidx, needs, ages>>
    /\ UNCHANGED mergeVars
    /\ UNCHANGED tableVars

\* Lines 493 and 461-476: the writes succeed, or one raises; _update_stock_data
\* re-raises and _process_single_stock catches (lines 500-502).
_update_stock_data_call ==
    /\ caller = "main"
    /\ cpc = "update"
    /\ \E outcome \in {"updated", "error"} : finish_stock(outcome)
    /\ UNCHANGED <<caller, trail, cret, n_stocks, sidx, needs, ages>>
    /\ UNCHANGED fetchVars
    /\ UNCHANGED mergeVars
    /\ UNCHANGED tableVars

\* Line 545: `for stock in stocks` takes the next stock, or is over.
main_next_stock ==
    /\ caller = "main"
    /\ cpc = "next"
    /\ IF sidx < n_stocks
       THEN /\ cpc' = "check"
            /\ sidx' = sidx + 1
       ELSE /\ cpc' = "done"
            /\ UNCHANGED sidx
    /\ trail' = <<>>
    /\ needs' = <<FALSE, FALSE>>
    /\ ages' = <<>>
    /\ UNCHANGED <<caller, cret, n_stocks, processed>>
    /\ UNCHANGED fetchVars
    /\ UNCHANGED mergeVars
    /\ UNCHANGED tableVars

RunNext ==
    \/ FetchNext
    \/ fallback_after_yahoo
    \/ fallback_return
    \/ main_start
    \/ _check_update_needs_call
    \/ _fetch_stock_data_with_fallback_after_yahoo
    \/ _fetch_stock_data_with_fallback_return
    \/ _update_stock_data_call
    \/ main_next_stock

RunSpec == RunInit /\ [][RunNext]_vars

----------------------------------------------------------------------------
(* merge_stocks_data.py: the script run again on the same file *)

MaxRuns == 2         \* runs of the script on the same file

next_id(table) ==
    IF table = <<>> THEN 1
    ELSE 1 + CHOOSE m \in {table[n].id : n \in DOMAIN table} :
                 \A n \in DOMAIN table : table[n].id <= m

\* A row of stocks_search as the select of line 102 shows it.
stored_row(id, entry) ==
    [id |-> id, ticker |-> entry.ticker, market_cap |-> entry.market_cap]

\* Variant of upsert_on_conflict_id: the entry is written as a new row.
upsert_on_conflict_id_appends(table, entry) ==
    Append(table, stored_row(next_id(table), entry))

\* Line 141: upsert(batch, ignore_duplicates=True), for one entry of the
\* batch: the entry becomes a row under the next id unless its ticker, the
\* natural key of stocks_search, has a row.
upsert_ignore_duplicates(table, entry) ==
    IF \E n \in DOMAIN table : table[n].ticker = entry.ticker
    THEN table
    ELSE Append(table, stored_row(next_id(table), entry))

\* Line 143: upsert(batch, on_conflict='id'), for one entry of the batch: the
\* row with the entry's id takes the entry's values.
upsert_on_conflict_id(table, entry) ==
    IF \E n \in DOMAIN table : table[n].id = entry.id
    THEN [n \in DOMAIN table |->
              IF table[n].id = entry.id THEN stored_row(entry.id, entry)
              ELSE table[n]]
    ELSE Append(table, stored_row(entry.id, entry))

RECURSIVE upsert_batch(_, _, _)
\* Lines 140-143: the store after one upsert call without an error.
upsert_batch(table, batch, mode) ==
    IF batch = <<>> THEN table
    ELSE upsert_batch(IF mode = "ignore_duplicates"
                      THEN upsert_ignore_duplicates(table, Head(batch))
                      ELSE upsert_on_conflict_id(table, Head(batch)),
                      Tail(batch), mode)

RECURSIVE store_after(_, _)
\* The store after the upsert calls cs of a run: a call whose response has
\* an error, or which raised, wrote nothing.
store_after(table, cs) ==
    IF cs = <<>> THEN table
    ELSE store_after(IF Head(cs).outcome = "ok"
                     THEN upsert_batch(table, Head(cs).batch, Head(cs).mode)
                     ELSE table,
                     Tail(cs))

\* State at the first run of the script (line 180).
RerunInit ==
    /\ MergeStart
    /\ FetchIdle
    /\ CallerIdle
    /\ TableIdle
    /\ rows \in SmallRows
    /\ file \in Files
    /\ exchange = "nasdaq"

\* Lines 178-180: the script is run again on the same file, after a run
\* that ended (line 173 or line 176); the select of line 102 will see
\* what the upsert calls of that run wrote.  What was printed stays on the
\* output.
rerun ==
    /\ pc \in {"done", "failed"}
    /\ run < MaxRuns
    /\ run' = run + 1
    /\ rows' = store_after(rows, calls)
    /\ pc' = "fetch_existing"
    /\ existing_symbol_to_id_map' = <<>>
    /\ stocks_data' = <<>>
    /\ idx' = 0
    /\ new_stocks' = <<>>
    /\ to_be_updated' = <<>>
    /\ i' = 0
    /\ calls' = <<>>
    /\ UNCHANGED <<file, exchange, log>>
    /\ UNCHANGED fetchVars
    /\ UNCHANGED callerVars
    /\ UNCHANGED tableVars

RerunNext == Next \/ rerun

RerunSpec == RerunInit /\ [][RerunNext]_vars

----------------------------------------------------------------------------
(* fill-fundamentals.py: _upsert_fundamentals_record *)

MaxUpserts == 3      \* calls of _upsert_fundamentals_record in a run

StockIds == {"AAPL", "MSFT"}
Quarters == {1, 2}
Years == {2024}

\* The key of the select of lines 390-391.
FundamentalsKeys == [stock_id : StockIds, quarter : Quarters, year : Years]

key_of(row) ==
    [stock_id |-> row.stock_id, quarter |-> row.quarter, year |-> row.year]

\* A row of stock_fundamentals; of the figures only created_at is kept.
fundamentals_row(id, key, created_at) ==
    [id |-> id, stock_id |-> key.stock_id, quarter |-> key.quarter,
     year |-> key.year, created_at |-> created_at]

\* Lines 390-391: select('*').eq('stock_id', ...).eq('quarter', quarter)
\* .eq('year', year).
select_existing(table, key) == SelectSeq(table, LAMBDA r : key_of(r) = key)

\* Variant of update_existing: the row is written as a new row.
update_existing_appends(table, existing, key, now) ==
    Append(table, fundamentals_row(Len(table) + 1, key, now))

\* Lines 397-400: fundamentals['id'] = existing.data[0]['id'], then
\* update(fundamentals).eq('id', fundamentals['id']).
update_existing(table, existing, key, now) ==
    LET id == existing[1].id
    IN [k \in DOMAIN table |->
            IF table[k].id = id THEN fundamentals_row(id, key, now)
            ELSE table[k]]

\* The branch for a key without a row: the record is inserted as a new row,
\* to which the store assigns the next id.
insert_new(table, key, now) ==
    Append(table, fundamentals_row(Len(table) + 1, key, now))

\* The table before the run: empty, or one row written earlier.
InitialTables ==
    {<<>>} \cup {<<fundamentals_row(1, key, 0)>> : key \in FundamentalsKeys}

\* State before the first _upsert_fundamentals_record call of a run.
UpsertInit ==
    /\ MergeIdle
    /\ FetchIdle
    /\ CallerIdle
    /\ stock_fundamentals \in InitialTables
    /\ upserted = <<>>

\* Lines 387-400: one call, for the key of one statement; a call of the
\* store may raise, which leaves the table as it was.
_upsert_fundamentals_record_call ==
    /\ pc = "idle"
    /\ fpc = "idle"
    /\ caller = "none"
    /\ Len(upserted) < MaxUpserts
    /\ \E key \in FundamentalsKeys, raised \in BOOLEAN :
        LET existing == select_existing(stock_fundamentals, key)
            now == Len(upserted) + 1
        IN IF raised
           THEN /\ upserted' = Append(upserted, [key |-> key, branch |-> "raised",
                                                 id |-> 0])
                /\ UNCHANGED stock_fundamentals
           ELSE IF existing # <<>>
           THEN /\ stock_fundamentals' =
                       update_existing(stock_fundamentals, existing, key, now)
                /\ upserted' = Append(upserted, [key |-> key, branch |-> "update",
                                                 id |-> existing[1].id])
           ELSE /\ stock_fundamentals' = insert_new(stock_fundamentals, key, now)
                /\ upserted' = Append(upserted,
                                      [key |-> key, branch |-> "insert",
                                       id |-> Len(stock_fundamentals) + 1])
    /\ UNCHANGED <<mergeVars, fetchVars, callerVars>>

UpsertNext == _upsert_fundamentals_record_call

UpsertSpec == UpsertInit /\ [][UpsertNext]_vars

----------------------------------------------------------------------------
(* Claims about _process_stock_data *)

\* The loop of _process_stock_data consumes one record.
ClassifyStep == pc = "classify" /\ idx' = idx + 1

\* The record consumed by a ClassifyStep.
Consumed == stocks_data[idx + 1]

IsPrefix(s, t) == Len(s) <= Len(t) /\ SubSeq(t, 1, Len(s)) = s

Last(s) == s[Len(s)]

ClassificationDone == pc = "insert" /\ i = 0 /\ calls = <<>>

\* C1: every input record gets exactly one decision: it is appended to
\* new_stocks, or appended to to_be_updated, or dropped; it is never put in
\* both lists, and len(new_stocks) + len(to_be_updated) <= len(B).
C1_OneDecisionPerRecord ==
    [][ClassifyStep =>
          /\ IsPrefix(new_stocks, new_stocks')
          /\ IsPrefix(to_be_updated, to_be_updated')
          /\ \/ /\ Len(new_stocks') = Len(new_stocks) + 1
                /\ to_be_updated' = to_be_updated
             \/ /\ Len(to_be_updated') = Len(to_be_updated) + 1
                /\ new_stocks' = new_stocks
             \/ /\ new_stocks' = new_stocks
                /\ to_be_updated' = to_be_updated
          /\ Range(new_stocks') \cap Range(to_be_updated') = {}
          /\ Len(new_stocks') + Len(to_be_updated') <= idx'
          /\ idx' <= Len(stocks_data)]_vars

\* One record was inserted, one tagged for update and one dropped.
C1_Witness ==
    /\ ClassificationDone
    /\ Len(new_stocks) >= 1
    /\ Len(to_be_updated) >= 1
    /\ Len(new_stocks) + Len(to_be_updated) < Len(stocks_data)

\* C2: a record whose symbol is absent from the snapshot is appended to
\* new_stocks, whatever its market_cap and whatever the snapshot holds for
\* other keys; to_be_updated is left alone.
C2_AbsentIsInserted ==
    [][(ClassifyStep /\ Consumed.symbol \notin DOMAIN existing_symbol_to_id_map) =>
          /\ Len(new_stocks') = Len(new_stocks) + 1
          /\ IsPrefix(new_stocks, new_stocks')
          /\ Last(new_stocks').ticker = Consumed.symbol
          /\ to_be_updated' = to_be_updated]_vars

\* An absent record without a market cap was inserted while the snapshot
\* holds another key whose market_cap is null.
C2_Witness ==
    /\ ClassificationDone
    /\ \E k \in DOMAIN stocks_data :
        /\ stocks_data[k].symbol \notin DOMAIN existing_symbol_to_id_map
        /\ stocks_data[k].market_cap \in {NA, None}
        /\ \E e \in Range(new_stocks) : e.ticker = stocks_data[k].symbol
    /\ \E t \in DOMAIN existing_symbol_to_id_map :
        existing_symbol_to_id_map[t].market_cap = None

\* C3: a record whose symbol is present in the snapshot is appended to
\* to_be_updated iff the stored market_cap is None; otherwise it is put in
\* neither list, and no upsert call carries an entry for such a ticker.
C3_PresentUpdatedIffNull ==
    /\ [][(ClassifyStep /\ Consumed.symbol \in DOMAIN existing_symbol_to_id_map) =>
            /\ new_stocks' = new_stocks
            /\ IF existing_symbol_to_id_map[Consumed.symbol].market_cap = None
               THEN /\ Len(to_be_updated') = Len(to_be_updated) + 1
                    /\ IsPrefix(to_be_updated, to_be_updated')
                    /\ Last(to_be_updated').ticker = Consumed.symbol
               ELSE to_be_updated' = to_be_updated]_vars
    /\ [](\A c \in Range(calls) : \A e \in Range(c.batch) :
             e.ticker \in DOMAIN existing_symbol_to_id_map =>
                 existing_symbol_to_id_map[e.ticker].market_cap = None)

\* A run ended in which a present record with a stored market cap was
\* dropped and a present record with a null one was written.
C3_Witness ==
    /\ pc = "done"
    /\ \E k \in DOMAIN stocks_data :
        /\ stocks_data[k].symbol \in DOMAIN existing_symbol_to_id_map
        /\ existing_symbol_to_id_map[stocks_data[k].symbol].market_cap # None
    /\ \E c \in Range(calls) : c.mode = "on_conflict_id" /\ Len(c.batch) >= 1

\* C4: every entry of to_be_updated carries the id the snapshot holds for
\* its ticker, and no entry of new_stocks carries an id.
C4_UpdateCarriesStoredId ==
    /\ \A e \in Range(to_be_updated) :
        /\ "id" \in DOMAIN e
        /\ e.ticker \in DOMAIN existing_symbol_to_id_map
        /\ e.id = existing_symbol_to_id_map[e.ticker].id
    /\ \A e \in Range(new_stocks) : "id" \notin DOMAIN e

\* Scenario of the spec: MSFT is stored with id 2 and a null market cap; the
\* update entry carries id 2 while another record was inserted.
C4_Witness ==
    /\ ClassificationDone
    /\ \E e \in Range(to_be_updated) : e.ticker = "MSFT" /\ e.id = 2
    /\ new_stocks # <<>>

\* C5: both lists keep the input order: each list is the subsequence of the
\* input made of the records that land in it.
C5_InputOrderPreserved ==
    LET map == existing_symbol_to_id_map
        consumed == SubSeq(stocks_data, 1, idx)
        Inserted(r) == r.symbol \notin DOMAIN map
        Updated(r) == r.symbol \in DOMAIN map /\ map[r.symbol].market_cap = None
        ins == SelectSeq(consumed, Inserted)
        upd == SelectSeq(consumed, Updated)
    IN /\ Len(new_stocks) = Len(ins)
       /\ \A k \in DOMAIN ins :
            /\ new_stocks[k].ticker = ins[k].symbol
            /\ (new_stocks[k].market_cap = None) = (ins[k].market_cap \in {NA, None})
       /\ Len(to_be_updated) = Len(upd)
       /\ \A k \in DOMAIN upd :
            /\ to_be_updated[k].ticker = upd[k].symbol
            /\ (to_be_updated[k].market_cap = None) = (upd[k].market_cap \in {NA, None})

\* Two distinguishable records landed in the same list.
C5_Witness ==
    /\ ClassificationDone
    /\ Len(new_stocks) >= 2
    /\ new_stocks[1] # new_stocks[2]
    /\ Len(to_be_updated) >= 1

----------------------------------------------------------------------------
(* Claims about _insert_stocks_in_batches and process_stocks *)

IsInsertCall(c) == c.mode = "ignore_duplicates"
IsUpdateCall(c) == c.mode = "on_conflict_id"

\* The upsert calls of the insert phase and of the update phase, in order.
InsertCalls == SelectSeq(calls, IsInsertCall)
UpdateCalls == SelectSeq(calls, IsUpdateCall)

\* _insert_stocks_in_batches(new_stocks, "new") returned, and
\* _insert_stocks_in_batches(to_be_updated, "update") returned.
InsertPhaseReturned == pc \in {"update", "done"}
UpdatePhaseReturned == pc = "done"

CeilDiv(n, d) == (n + d - 1) \div d

RECURSIVE Flatten(_)
Flatten(cs) == IF cs = <<>> THEN <<>> ELSE Head(cs).batch \o Flatten(Tail(cs))

AllOutcomes(cs, allowed) == \A k \in DOMAIN cs : cs[k].outcome \in allowed

\* cs are the chunks of list: consecutive slices, all of BATCH_SIZE records
\* but the last, which has between 1 and BATCH_SIZE.
ChunksOf(list, cs) ==
    /\ Len(cs) = CeilDiv(Len(list), BATCH_SIZE)
    /\ \A k \in DOMAIN cs :
        /\ k < Len(cs) => Len(cs[k].batch) = BATCH_SIZE
        /\ k = Len(cs) => Len(cs[k].batch) \in 1..BATCH_SIZE
    /\ Flatten(cs) = list

\* C6: called with an empty list, _insert_stocks_in_batches issues no upsert
\* call and returns normally; a run whose records are all new issues upsert
\* calls for the insert phase only.
C6_EmptyListNoCalls ==
    /\ [](new_stocks = <<>> => InsertCalls = <<>>)
    /\ [](to_be_updated = <<>> => UpdateCalls = <<>>)
    /\ [][(pc \in {"insert", "update"} /\ current_stocks = <<>>) =>
            /\ calls' = calls
            /\ pc' = IF pc = "insert" THEN "update" ELSE "done"]_vars

\* A run ended in which every record was new: calls were issued, all of
\* them for the insert phase.
C6_Witness ==
    /\ pc = "done"
    /\ new_stocks # <<>>
    /\ to_be_updated = <<>>
    /\ calls # <<>>
    /\ UpdateCalls = <<>>

\* C7: when all upserts succeed, a list of n records gives ceil(n/1000)
\* calls, every chunk but the last of 1000 records, the last of 1 to 1000,
\* and the chunks concatenated in call order are the list.
C7_ChunksOfBatchSize ==
    /\ (InsertPhaseReturned /\ AllOutcomes(InsertCalls, {"ok"}))
            => ChunksOf(new_stocks, InsertCalls)
    /\ (UpdatePhaseReturned /\ AllOutcomes(UpdateCalls, {"ok"}))
            => ChunksOf(to_be_updated, UpdateCalls)

\* 1500 records were written in 2 calls, of 1000 and of 500 records.
C7_Witness ==
    /\ pc = "done"
    /\ Len(new_stocks) = 1500
    /\ AllOutcomes(calls, {"ok"})
    /\ Len(calls) = 2
    /\ Len(calls[1].batch) = 1000
    /\ Len(calls[2].batch) = 500

\* The log lines of one phase that report a failed batch.
ErrorLines(type) ==
    LET IsErr(l) == l.line = "Error inserting" /\ l.type = type
    IN SelectSeq(log, IsErr)

\* The batch numbers (index + 1) of the calls of cs that came back with an
\* error, in call order.
ErrorBatches(cs) ==
    LET Numbered == [k \in DOMAIN cs |-> [n |-> k, outcome |-> cs[k].outcome]]
        IsErr(x) == x.outcome = "error"
        errs == SelectSeq(Numbered, IsErr)
    IN [k \in DOMAIN errs |-> errs[k].n]

Reported(type, cs) ==
    LET lines == ErrorLines(type)
        nums == ErrorBatches(cs)
    IN /\ Len(lines) = Len(nums)
       /\ \A k \in DOMAIN nums : lines[k].batch = nums[k]

\* An upsert just came back with an error in its response.
ErrorResponseStep ==
    /\ Len(calls') = Len(calls) + 1
    /\ Last(calls').outcome = "error"

\* C8: an error in the response of chunk i is reported for batch i+1 and the
\* loop goes on with chunk i+1; whatever the number of error responses, the
\* calls are the chunks of the list in order, each attempted once.
C8_ErrorResponseIsolated ==
    /\ [](Reported("new", InsertCalls) /\ Reported("update", UpdateCalls))
    /\ [][ErrorResponseStep =>
            /\ pc' = pc
            /\ i' = i + BATCH_SIZE]_vars
    /\ []((InsertPhaseReturned /\ AllOutcomes(InsertCalls, {"ok", "error"}))
            => ChunksOf(new_stocks, InsertCalls))
    /\ []((UpdatePhaseReturned /\ AllOutcomes(UpdateCalls, {"ok", "error"}))
            => ChunksOf(to_be_updated, UpdateCalls))

\* The first chunk of a list came back with an error and the second chunk
\* of the same list was attempted after it.
C8_Witness ==
    /\ Len(calls) >= 2
    /\ calls[1].outcome = "error"
    /\ calls[2].mode = calls[1].mode
    /\ log[1] = [line |-> "Error inserting", type |-> "new", batch |-> 1]

\* process_stocks got as far as writing, and has ended.
RunEndedAfterWriting == pc \in {"done", "failed"} /\ calls # <<>>

\* C9: however a chunk's write fails (error response or exception), every
\* chunk of the insert list and every chunk of the update list is attempted.
C9_EveryChunkAttempted ==
    RunEndedAfterWriting =>
        /\ Len(InsertCalls) = CeilDiv(Len(new_stocks), BATCH_SIZE)
        /\ Len(UpdateCalls) = CeilDiv(Len(to_be_updated), BATCH_SIZE)

----------------------------------------------------------------------------
(* Claims about the retry loops *)

\* The running retry loop has ended: the function returned, or (Alpha
\* Vantage) the loop of the endpoint was left.
RetryLoopOver ==
    \/ fpc \in {"returned", "break"}
    \/ fpc = "loop" /\ attempt >= max_retries

AllRateLimited ==
    /\ requests # <<>>
    /\ \A k \in DOMAIN requests : requests[k] \in RateLimitResponses

----------------------------------------------------------------------------
(* Claims about the retry loops: failures that are not rate limits *)

\* Answers that make an attempt of fetch f fail in its except clause: the
\* request or raise_for_status() raises; for the Yahoo fetches also a body
\* whose fields are missing (lines 213-219 and 252-257 index into it).
NonRateLimitFailures(f) ==
    IF f = "fetch_alpha_vantage_data" THEN {"error"} ELSE {"error", "malformed"}

\* Every request of the running retry loop has failed that way.
AllFailed ==
    /\ requests # <<>>
    /\ \A k \in DOMAIN requests : requests[k] \in NonRateLimitFailures(fn)

\* C11: when all max_retries consecutive requests of a fetch (or of one
\* Alpha Vantage endpoint) fail with an error that is not a rate limit, the
\* fetch returns None after exactly max_retries requests: not before, and
\* once it has returned no further request is issued.
C11_ExhaustedRetriesReturnNone ==
    /\ [](/\ (AllFailed /\ Len(requests) = max_retries)
               => (fpc = "returned" /\ ret = None)
          /\ (AllFailed /\ fpc = "returned") => Len(requests) = max_retries
          /\ Len(requests) <= max_retries)
    /\ [][fpc = "returned" => (issued' = issued /\ requests' = requests)]_vars

\* The second endpoint of Alpha Vantage fails on both of two attempts.
C11_Witness ==
    /\ fn = "fetch_alpha_vantage_data"
    /\ max_retries = 2
    /\ endpoint = 2
    /\ requests = <<"error", "error">>
    /\ issued = 3
    /\ fpc = "returned"
    /\ ret = None

----------------------------------------------------------------------------
(* Claims about fetch_stock_data and process_stock *)

\* The caller has called fetch function f for the stock at hand.
Called(f) == fn = f \/ \E k \in DOMAIN trail : trail[k].fn = f

\* Requests issued by the caller's calls of fetch function f so far.
RequestsOf(f) ==
    LET done == {k \in DOMAIN trail : trail[k].fn = f}
    IN (IF fn = f THEN issued ELSE 0)
       + (IF done = {} THEN 0 ELSE trail[CHOOSE k \in done : TRUE].issued)

PrimaryReturned(value) == trail # <<>> /\ trail[1].ret = value

----------------------------------------------------------------------------
(* Claims about fetch_alpha_vantage_data *)

\* The retry loop of endpoint number k has produced data: line 89 has stored
\* a body for it, which the code does for every 2xx JSON body that is not the
\* throttle note (the fields of the body are not looked at before it is
\* stored).
HasData(k) ==
    /\ endpoints[k] \in DOMAIN result
    /\ result[endpoints[k]] \in {"ok", "malformed"}

\* The retry loop of endpoint number k is over and has stored nothing.
EndedWithoutData(k) ==
    /\ endpoints[k] \notin DOMAIN result
    /\ \/ k < endpoint
       \/ k = endpoint /\ fpc = "returned"
       \/ k = endpoint /\ fpc = "loop" /\ attempt >= max_retries

C14_NoteHandledLike429 ==
    [][(/\ fn = "fetch_alpha_vantage_data"
        /\ issued' = issued + 1
        /\ Last(requests') \in {"rate_limited", "note"})
       => /\ result' = result
          /\ sleeps' = <<slept("pacing", PACING), slept("cool_off", COOL_OFF)>>
          /\ attempt' = attempt + 1
          /\ endpoint' = endpoint
          /\ fpc' = "loop"
          /\ ret' = ret]_vars

\* The first endpoint is answered by the note, then by HTTP 429.
C14_Witness ==
    /\ fn = "fetch_alpha_vantage_data"
    /\ endpoint = 1
    /\ requests = <<"note", "rate_limited">>
    /\ result = <<>>
    /\ attempt = 2
    /\ \E k \in DOMAIN sleeps : sleeps[k] = slept("cool_off", COOL_OFF)

----------------------------------------------------------------------------
(* Claims about main and _process_single_stock *)

\* _process_single_stock runs for the stock at hand.
InsideStock == cpc \in {"check", "yahoo", "detailed", "alpha_vantage", "update"}

\* C15: in the run of main over the stocks, a stock that fails (both
\* providers without data, or an exception while checking, fetching or
\* writing) is the only one skipped: the stocks are taken in order, each
\* once, whatever became of the ones before, and the loop ends only after
\* the last stock.
C15_FailureSkipsOnlyThatStock ==
    caller = "main" =>
        /\ \A k \in DOMAIN processed : processed[k].stock = k
        /\ InsideStock => (sidx \in 1..n_stocks /\ Len(processed) = sidx - 1)
        /\ cpc = "next" => Len(processed) = sidx
        /\ cpc = "done" => Len(processed) = n_stocks
        /\ cpc = "aborted" => (processed = <<>> /\ sidx = 0)

\* Both providers fail for the first stock; the second stock is updated.
C15_Witness ==
    /\ caller = "main"
    /\ cpc = "done"
    /\ n_stocks = 2
    /\ processed[1].outcome = "fetch_failed"
    /\ processed[2].outcome = "updated"

----------------------------------------------------------------------------
(* Claims about process_stocks as a whole *)

\* C16: process_stocks never raises; when the file cannot be opened or is
\* not valid JSON the exception is caught, the one line printed starts with
\* 'Error processing stocks:', and no upsert call is issued.
C16_UnreadableFileCaught ==
    /\ (file.kind # "ok" /\ pc \notin {"fetch_existing", "open"}) =>
           /\ pc = "failed"
           /\ log = <<[line |-> "Error processing stocks:"]>>
           /\ calls = <<>>
    /\ pc = "failed" =>
           (log # <<>> /\ Last(log) = [line |-> "Error processing stocks:"])

\* The store was read, then json.load raised.
C16_Witness ==
    /\ file.kind = "invalid"
    /\ existing_symbol_to_id_map # <<>>
    /\ pc = "failed"
    /\ log = <<[line |-> "Error processing stocks:"]>>
    /\ calls = <<>>

\* Entry e is the image of input record rec: its ticker is the symbol, its
\* market_cap is None for the 'N/A' marker and the record's value otherwise
\* (for a record whose market_cap is JSON null that value is itself None),
\* its exchange is the exchange argument.
ImageOf(e, rec) ==
    /\ e.ticker = rec.symbol
    /\ e.market_cap = (IF rec.market_cap = NA THEN None ELSE rec.market_cap)
    /\ e.exchange = exchange

\* C17: every entry process_stocks writes is the image of one input record:
\* each entry of a written batch is an entry of new_stocks or to_be_updated,
\* and each entry appended to these lists is the image of the record the
\* loop has just consumed.
C17_EntriesAreImagesOfRecords ==
    /\ [](\A k \in DOMAIN calls :
            Range(calls[k].batch)
                \subseteq (Range(new_stocks) \cup Range(to_be_updated)))
    /\ [][ClassifyStep =>
            /\ Len(new_stocks') > Len(new_stocks)
                   => ImageOf(Last(new_stocks'), Consumed)
            /\ Len(to_be_updated') > Len(to_be_updated)
                   => ImageOf(Last(to_be_updated'), Consumed)]_vars

\* Two new records, one with the 'N/A' marker and one with a value, were
\* written for the exchange nyse.
C17_Witness ==
    /\ pc = "done"
    /\ exchange = "nyse"
    /\ Len(stocks_data) = 2
    /\ stocks_data[1].market_cap = NA
    /\ stocks_data[2].market_cap = "3000"
    /\ Len(calls) = 1
    /\ calls[1].outcome = "ok"
    /\ Len(calls[1].batch) = 2
    /\ calls[1].batch[1].market_cap = None
    /\ calls[1].batch[2].market_cap = "3000"

----------------------------------------------------------------------------
(* Claims about fetch_existing_stocks *)

\* fetch_existing_stocks has returned its lookup.
LookupBuilt == pc \in {"open", "classify", "insert", "update", "done"}

----------------------------------------------------------------------------
(* Claims about the number of upsert calls of a run *)

\* The file holds one record, and the store has its ticker with a null
\* market_cap (test_process_stocks_update_null_market_cap).
OnlyRecordNeedsRefresh ==
    /\ Len(stocks_data) = 1
    /\ stocks_data[1].symbol \in DOMAIN existing_symbol_to_id_map
    /\ existing_symbol_to_id_map[stocks_data[1].symbol].market_cap = None

----------------------------------------------------------------------------
(* Claims about the cool-off *)

\* C20: in every fetch loop, when the request before was answered by a
\* rate limit, the fixed cool-off of about 30 seconds has been slept before
\* the next request goes to that provider.
C20_CoolOffAfterRateLimit ==
    [][(/\ issued' = issued + 1
        /\ requests # <<>>
        /\ Last(requests) \in RateLimitResponses)
       => \E k \in DOMAIN sleeps : sleeps[k] = slept("cool_off", COOL_OFF)]_vars

----------------------------------------------------------------------------
(* Claims about malformed answers *)

YahooFetches == {"fetch_yahoo_data", "fetch_detailed_yahoo_data"}

\* C21 as stated: a 2xx body without the expected fields is not retried:
\* no request follows it, even when attempts of max_retries remain, and the
\* fetch returns None (the item is skipped).
C21_MalformedNotRetried ==
    fn \in YahooFetches =>
        \A k \in DOMAIN requests :
            requests[k] = "malformed" =>
                /\ k = Len(requests)
                /\ fpc = "returned" => ret = None

\* C21, amended: a 2xx body without the expected fields is handled as any
\* other exception of the attempt: on the last attempt the fetch returns
\* None, on an earlier attempt the loop goes on with the next attempt (and
\* its request).
C21_MalformedRetriedLikeError ==
    fn \in YahooFetches =>
        \A k \in DOMAIN requests :
            (requests[k] = "malformed" /\ k = Len(requests)) =>
                IF k = max_retries
                THEN fpc = "returned" /\ ret = None
                ELSE fpc = "loop" /\ attempt = k /\ attempt < max_retries

\* The first answer of fetch_yahoo_data was malformed, the second attempt
\* gave the record.
C21_Witness ==
    /\ fn = "fetch_yahoo_data"
    /\ max_retries = 2
    /\ requests = <<"malformed", "ok">>
    /\ issued = 2
    /\ fpc = "returned"
    /\ ret = "record"

----------------------------------------------------------------------------
(* Claims about termination of the fetches *)

\* The most requests a call of the running fetch may issue.
RequestBudget ==
    IF fn = "fetch_alpha_vantage_data"
    THEN Len(endpoints) * max_retries
    ELSE max_retries

\* C22: every fetch call terminates whatever the provider answers: a retry
\* loop issues at most max_retries requests, so the Yahoo fetches issue at
\* most max_retries and fetch_alpha_vantage_data at most 5 * max_retries;
\* a fetch whose attempts were all rate limited returns None; and every
\* call does return.
C22_FetchTerminates ==
    /\ [](Len(requests) <= max_retries /\ issued <= RequestBudget)
    /\ []((fn \in YahooFetches /\ fpc = "returned" /\ AllRateLimited)
              => ret = None)
    /\ []((fn = "fetch_alpha_vantage_data" /\ fpc = "returned"
              /\ result = <<>>) => ret = None)
    /\ <>(fpc = "returned")

\* fetch_alpha_vantage_data was rate limited on every attempt of every
\* endpoint and has returned None after 5 * max_retries requests.
C22_Witness ==
    /\ fn = "fetch_alpha_vantage_data"
    /\ max_retries = 2
    /\ endpoint = Len(endpoints)
    /\ AllRateLimited
    /\ result = <<>>
    /\ issued = RequestBudget
    /\ fpc = "returned"
    /\ ret = None

----------------------------------------------------------------------------
(* Claims about _upsert_fundamentals_record *)

\* A call of _upsert_fundamentals_record returns.
UpsertStep ==
    /\ Len(upserted') = Len(upserted) + 1
    /\ Last(upserted').branch # "raised"

\* Indices of the rows of table t that have key k.
RowsOf(t, k) ==
    {n \in DOMAIN t : t[n].stock_id = k.stock_id /\ t[n].quarter = k.quarter
                       /\ t[n].year = k.year}

----------------------------------------------------------------------------
(* Claims about _check_update_needs and _fetch_stock_data_with_fallback *)

\* C24: needs_metrics is reported exactly when the stock has no stock_metrics
\* row or its updated_at is more than 15 minutes old, needs_fundamentals
\* exactly when it has no stock_fundamentals row or the latest created_at is
\* more than one day (1440 minutes) old; a stock that needs neither is
\* finished with no provider request and no store write, and any other stock
\* is fetched.
C24_NeedsByAge ==
    (caller = "main" /\ ages # <<>>) =>
        /\ needs[1] <=> (ages[1] = -1 \/ ages[1] > 15)
        /\ needs[2] <=> (ages[2] = -1 \/ ages[2] > 1440)
        /\ (~needs[1] /\ ~needs[2]) =>
              /\ cpc = "next"
              /\ trail = <<>>
              /\ fn = "none" /\ issued = 0
              /\ Last(processed) = [stock |-> sidx,
                                    outcome |-> "no_update_needed",
                                    wrote |-> FALSE]
        /\ (needs[1] \/ needs[2]) => Called("fetch_yahoo_data")

\* The second stock has rows exactly as old as the thresholds and is left
\* alone, after a first stock that was updated.
C24_Witness ==
    /\ caller = "main"
    /\ sidx = 2
    /\ ages = <<15, 1440>>
    /\ needs = <<FALSE, FALSE>>
    /\ Len(processed) = 2
    /\ processed[1].outcome = "updated"
    /\ processed[2].outcome = "no_update_needed"
    /\ issued = 0

\* C25: in _fetch_stock_data_with_fallback the secondary provider is
\* contacted only after the basic quote fetch failed, and then the detailed
\* fetch is not made; when the quote fetch succeeds and the detailed fetch
\* fails, the secondary provider is not contacted and the stock is skipped
\* without a store write.
C25_FallbackOnlyAfterQuoteFailure ==
    caller = "main" =>
        /\ Called("fetch_alpha_vantage_data") =>
              /\ trail # <<>>
              /\ trail[1].fn = "fetch_yahoo_data"
              /\ trail[1].ret = "None"
              /\ ~Called("fetch_detailed_yahoo_data")
        /\ (/\ Len(trail) = 2
            /\ trail[1].ret = "record"
            /\ trail[2].fn = "fetch_detailed_yahoo_data"
            /\ trail[2].ret = "None") =>
              /\ cpc = "next"
              /\ fn = "none"
              /\ ~Called("fetch_alpha_vantage_data")
              /\ Last(processed) = [stock |-> sidx, outcome |-> "fetch_failed",
                                    wrote |-> FALSE]

\* The quote came with one request, the detailed fetch used all its
\* attempts and failed: the stock is skipped, Alpha Vantage untouched.
C25_Witness ==
    /\ caller = "main"
    /\ cpc = "next"
    /\ Len(trail) = 2
    /\ trail[1] = [fn |-> "fetch_yahoo_data", ret |-> "record", issued |-> 1]
    /\ trail[2].fn = "fetch_detailed_yahoo_data"
    /\ trail[2].ret = "None"
    /\ trail[2].issued = DETAILED_MAX_RETRIES
    /\ Last(processed).outcome = "fetch_failed"

----------------------------------------------------------------------------
(* Claims about running process_stocks again *)

\* The first run printed its summary and no error before it: every upsert
\* call of the first run succeeded.
FirstRunSucceeded ==
    \E s \in DOMAIN log :
        /\ log[s].line = "Summary:"
        /\ \A k \in 1..s :
              log[k].line \notin {"Error inserting", "Error processing stocks:"}

\* C26: after a run of process_stocks whose writes all succeeded, a further
\* run on the same file has an empty insert list and issues no insert call,
\* its update list holds only keys whose stored market_cap is still null,
\* and no run leaves two rows for one ticker in the store.
C26_RerunIdempotent ==
    /\ [](( run >= 2 /\ FirstRunSucceeded) =>
            /\ new_stocks = <<>>
            /\ \A k \in DOMAIN calls : calls[k].mode # "ignore_duplicates"
            /\ \A k \in DOMAIN to_be_updated :
                 \E n \in DOMAIN rows :
                    /\ rows[n].id = to_be_updated[k].id
                    /\ rows[n].ticker = to_be_updated[k].ticker
                    /\ rows[n].market_cap = "None")
    /\ [](\A a, b \in DOMAIN rows :
              a # b => rows[a].ticker # rows[b].ticker /\ rows[a].id # rows[b].id)

\* The first run inserted AAPL without a market cap and filled the market
\* cap of MSFT; the second run inserts nothing and asks again for AAPL only.
C26_Witness ==
    /\ run = 2
    /\ pc = "done"
    /\ FirstRunSucceeded
    /\ Len(stocks_data) = 2
    /\ new_stocks = <<>>
    /\ Len(to_be_updated) = 1
    /\ to_be_updated[1].ticker = "AAPL"
    /\ Len(rows) = 2
    /\ rows[1] = [id |-> 1, ticker |-> "MSFT", market_cap |-> "3000"]
    /\ rows[2].ticker = "AAPL" /\ rows[2].market_cap = "None"
    /\ Len(calls) = 1 /\ calls[1].outcome = "ok"

====
